---- MODULE Spec2Model ----
(***************************************************************************)
(* tailr (src/tailr/src/lib.rs): the count-argument parser parse_num, the  *)
(* offset resolver get_start_index, the counting pass count_lines_bytes,   *)
(* the two extractors print_lines and print_bytes, and the orchestrator    *)
(* get_args / run.                                                         *)
(*                                                                         *)
(* Text is a sequence of one-character strings, file content a sequence of *)
(* byte values.  i64 is modelled at a reduced width of Bits bits, so that  *)
(* the boundary values I64_MIN and I64_MAX are within TLC's integers.      *)
(***************************************************************************)
EXTENDS Integers, Sequences, FiniteSets, TLC

VARIABLES
    val,          \* SpecParse: the argument of parse_num
    parsed,       \* SpecParse: what parse_num returned for val
    take_val,     \* SpecResolve: the TakeValue handed to get_start_index
    total,        \* SpecResolve: the total handed to get_start_index
    resolved,     \* SpecResolve: what get_start_index returned
    args,         \* Spec: the command line as clap's matches give it
    fs,           \* Spec: the file system, path -> content or Missing
    config,       \* Spec: the Config get_args built
    pc,           \* Spec: position in get_args / run
    id,           \* Spec: run's loop index (enumerate, zero-based)
    pos,          \* Spec: read position of the BufReader in use
    lines,        \* Spec: count_lines_bytes' lines
    bytes,        \* Spec: count_lines_bytes' bytes
    total_lines,  \* Spec: run's total_lines
    total_bytes,  \* Spec: run's total_bytes
    start,        \* Spec: the extractor's get_start_index result
    line_num,     \* Spec: print_lines' line_num
    stdout,       \* Spec: the chunks written by print! / println!, in order
    stderr,       \* Spec: the chunks written by eprintln!, in order
    ret           \* Spec: what get_args / run returned

parseVars == <<val, parsed>>
resolveVars == <<take_val, total, resolved>>
runVars == <<args, fs, config, pc, id, pos, lines, bytes, total_lines,
             total_bytes, start, line_num, stdout, stderr, ret>>
vars == <<val, parsed, take_val, total, resolved, args, fs, config, pc, id,
          pos, lines, bytes, total_lines, total_bytes, start, line_num,
          stdout, stderr, ret>>

----------------------------------------------------------------------------
(* Bounds of the model. *)

\* width of the modelled i64
Bits == 8
\* longest argument string enumerated for parse_num
MaxArgLen == 3
\* most bytes the modelled file system holds over all its files
MaxBytes == 3
\* longest list of paths given to run
MaxFiles == 2

I64_MAX == 2^(Bits - 1) - 1
I64_MIN == -(2^(Bits - 1))
I64 == I64_MIN..I64_MAX

\* two's-complement wrap of a mathematical integer into i64
WrapI64(x) == ((x - I64_MIN) % 2^Bits) + I64_MIN

----------------------------------------------------------------------------
(* Text. *)

DigitChars == {"0", "1", "2", "3", "4", "5", "6", "7", "8", "9"}

\* char::to_digit(10)
ToDigit(c) ==
    CASE c = "0" -> 0 [] c = "1" -> 1 [] c = "2" -> 2 [] c = "3" -> 3
      [] c = "4" -> 4 [] c = "5" -> 5 [] c = "6" -> 6 [] c = "7" -> 7
      [] c = "8" -> 8 [] c = "9" -> 9

DigitChar(d) ==
    CASE d = 0 -> "0" [] d = 1 -> "1" [] d = 2 -> "2" [] d = 3 -> "3"
      [] d = 4 -> "4" [] d = 5 -> "5" [] d = 6 -> "6" [] d = 7 -> "7"
      [] d = 8 -> "8" [] d = 9 -> "9"

RECURSIVE NatToString(_)
NatToString(n) ==
    IF n < 10 THEN <<DigitChar(n)>>
    ELSE NatToString(n \div 10) \o <<DigitChar(n % 10)>>

\* i64::to_string, as the tests use it to build the boundary arguments
I64ToString(n) == IF n < 0 THEN <<"-">> \o NatToString(-n) ELSE NatToString(n)

\* str::starts_with for a one-character pattern
StartsWith(s, c) == Len(s) > 0 /\ s[1] = c

----------------------------------------------------------------------------
(* TakeValue, Option and Result. *)

PlusZero == [tag |-> "PlusZero", num |-> 0]
TakeNum(n) == [tag |-> "TakeNum", num |-> n]
NoTake == [tag |-> "NoTake", num |-> 0]

None == [some |-> FALSE, v |-> 0]
Some(x) == [some |-> TRUE, v |-> x]

Ok(tv) == [kind |-> "Ok", take |-> tv, text |-> <<>>]
Err(t) == [kind |-> "Err", take |-> NoTake, text |-> t]
\* an arithmetic overflow panic of a build with overflow checks
Panic == [kind |-> "Panic", take |-> NoTake, text |-> <<>>]
NotParsed == [kind |-> "NotParsed", take |-> NoTake, text |-> <<>>]

----------------------------------------------------------------------------
(* str::parse::<i64>, as parse_num calls it. *)

IntOk(n) == [ok |-> TRUE, v |-> n, kind |-> "Ok"]
IntErr(k) == [ok |-> FALSE, v |-> 0, kind |-> k]

RECURSIVE ParseDigits(_, _, _)
ParseDigits(digits, acc, positive) ==
    IF digits = <<>> THEN IntOk(acc)
    ELSE LET c == Head(digits) IN
         IF c \notin DigitChars THEN IntErr("InvalidDigit")
         ELSE LET r == IF positive THEN acc * 10 + ToDigit(c)
                                   ELSE acc * 10 - ToDigit(c) IN
              IF r > I64_MAX THEN IntErr("PosOverflow")
              ELSE IF r < I64_MIN THEN IntErr("NegOverflow")
              ELSE ParseDigits(Tail(digits), r, positive)

ParseI64(src) ==
    IF src = <<>> THEN IntErr("Empty")
    ELSE IF Head(src) \in {"+", "-"} /\ Len(src) = 1 THEN IntErr("InvalidDigit")
    ELSE IF Head(src) = "+" THEN ParseDigits(Tail(src), 0, TRUE)
    ELSE IF Head(src) = "-" THEN ParseDigits(Tail(src), 0, FALSE)
    ELSE ParseDigits(src, 0, TRUE)

\* ParseIntError's Display text, which `?` boxes as the error
ParseIntErrorText(k) ==
    CASE k = "Empty" ->
           <<"c","a","n","n","o","t"," ","p","a","r","s","e"," ","i","n","t",
             "e","g","e","r"," ","f","r","o","m"," ","e","m","p","t","y"," ",
             "s","t","r","i","n","g">>
      [] k = "InvalidDigit" ->
           <<"i","n","v","a","l","i","d"," ","d","i","g","i","t"," ","f","o",
             "u","n","d"," ","i","n"," ","s","t","r","i","n","g">>
      [] k = "PosOverflow" ->
           <<"n","u","m","b","e","r"," ","t","o","o"," ","l","a","r","g","e",
             " ","t","o"," ","f","i","t"," ","i","n"," ","t","a","r","g","e",
             "t"," ","t","y","p","e">>
      [] k = "NegOverflow" ->
           <<"n","u","m","b","e","r"," ","t","o","o"," ","s","m","a","l","l",
             " ","t","o"," ","f","i","t"," ","i","n"," ","t","a","r","g","e",
             "t"," ","t","y","p","e">>

\* `val * -1` on i64: the product when it fits; when it does not, a panic
\* (overflow checks on) or the wrapped product (overflow checks off)
NegateI64(v) ==
    IF -v \in I64 THEN {Ok(TakeNum(-v))}
    ELSE {Panic, Ok(TakeNum(WrapI64(-v)))}

\* parse_num with the implicit negation of an unsigned string left out
ParseNum_NoNegate(s) ==
    IF StartsWith(s, "+") THEN
        LET r == ParseI64(s) IN
        IF ~r.ok THEN {Err(ParseIntErrorText(r.kind))}
        ELSE IF r.v = 0 THEN {Ok(PlusZero)}
        ELSE {Ok(TakeNum(r.v))}
    ELSE IF StartsWith(s, "-") THEN
        LET r == ParseI64(s) IN
        IF ~r.ok THEN {Err(ParseIntErrorText(r.kind))}
        ELSE {Ok(TakeNum(r.v))}
    ELSE
        LET r == ParseI64(s) IN
        IF r.ok THEN {Ok(TakeNum(r.v))} ELSE {Err(s)}

\* parse_num without its branch for a leading "-": every string that does
\* not start with "+" is parsed and negated
ParseNum_NoMinusBranch(s) ==
    IF StartsWith(s, "+") THEN
        LET r == ParseI64(s) IN
        IF ~r.ok THEN {Err(ParseIntErrorText(r.kind))}
        ELSE IF r.v = 0 THEN {Ok(PlusZero)}
        ELSE {Ok(TakeNum(r.v))}
    ELSE
        LET r == ParseI64(s) IN
        IF r.ok THEN NegateI64(r.v) ELSE {Err(s)}

\* parse_num: the set of outcomes the build can produce for val
ParseNum(s) ==
    IF StartsWith(s, "+") THEN
        LET r == ParseI64(s) IN
        IF ~r.ok THEN {Err(ParseIntErrorText(r.kind))}
        ELSE IF r.v = 0 THEN {Ok(PlusZero)}
        ELSE {Ok(TakeNum(r.v))}
    ELSE IF StartsWith(s, "-") THEN
        LET r == ParseI64(s) IN
        IF ~r.ok THEN {Err(ParseIntErrorText(r.kind))}
        ELSE {Ok(TakeNum(r.v))}
    ELSE
        LET r == ParseI64(s) IN
        IF r.ok THEN NegateI64(r.v) ELSE {Err(s)}

----------------------------------------------------------------------------
(* get_start_index. *)

\* get_start_index returning None where it clamps a negative start to 0
GetStartIndex_NoClamp(tv, tot) ==
    IF tv.tag = "PlusZero" THEN (IF tot > 0 THEN Some(0) ELSE None)
    ELSE IF tv.num = 0 \/ tot = 0 \/ tv.num > tot THEN None
    ELSE LET st == IF tv.num < 0 THEN WrapI64(tot + tv.num)
                                 ELSE WrapI64(tv.num - 1) IN
         IF st < 0 THEN None ELSE Some(st)

\* get_start_index taking a positive num as the offset itself
GetStartIndex_OneBased(tv, tot) ==
    IF tv.tag = "PlusZero" THEN (IF tot > 0 THEN Some(0) ELSE None)
    ELSE IF tv.num = 0 \/ tot = 0 \/ tv.num > tot THEN None
    ELSE LET st == IF tv.num < 0 THEN WrapI64(tot + tv.num)
                                 ELSE tv.num IN
         Some(IF st < 0 THEN 0 ELSE st)

\* get_start_index keeping num - 1 but accepting num = total + 1
GetStartIndex_PastEnd(tv, tot) ==
    IF tv.tag = "PlusZero" THEN (IF tot > 0 THEN Some(0) ELSE None)
    ELSE IF tv.num = 0 \/ tot = 0 \/ tv.num > tot + 1 THEN None
    ELSE LET st == IF tv.num < 0 THEN WrapI64(tot + tv.num)
                                 ELSE WrapI64(tv.num - 1) IN
         Some(IF st < 0 THEN 0 ELSE st)

\* get_start_index without the test for num == 0
GetStartIndex_NoZeroCheck(tv, tot) ==
    IF tv.tag = "PlusZero" THEN (IF tot > 0 THEN Some(0) ELSE None)
    ELSE IF tot = 0 \/ tv.num > tot THEN None
    ELSE LET st == IF tv.num < 0 THEN WrapI64(tot + tv.num)
                                 ELSE WrapI64(tv.num - 1) IN
         Some(IF st < 0 THEN 0 ELSE st)

\* get_start_index answering PlusZero without looking at the total
GetStartIndex_PlusZeroAlways(tv, tot) ==
    IF tv.tag = "PlusZero" THEN Some(0)
    ELSE IF tv.num = 0 \/ tot = 0 \/ tv.num > tot THEN None
    ELSE LET st == IF tv.num < 0 THEN WrapI64(tot + tv.num)
                                 ELSE WrapI64(tv.num - 1) IN
         Some(IF st < 0 THEN 0 ELSE st)

\* get_start_index subtracting a negative num from the total
GetStartIndex_SubNum(tv, tot) ==
    IF tv.tag = "PlusZero" THEN (IF tot > 0 THEN Some(0) ELSE None)
    ELSE IF tv.num = 0 \/ tot = 0 \/ tv.num > tot THEN None
    ELSE LET st == IF tv.num < 0 THEN WrapI64(tot - tv.num)
                                 ELSE WrapI64(tv.num - 1) IN
         Some(IF st < 0 THEN 0 ELSE st)

\* get_start_index counting a negative num from one past the total
GetStartIndex_TrailingOffByOne(tv, tot) ==
    IF tv.tag = "PlusZero" THEN (IF tot > 0 THEN Some(0) ELSE None)
    ELSE IF tv.num = 0 \/ tot = 0 \/ tv.num > tot THEN None
    ELSE LET st == IF tv.num < 0 THEN WrapI64(tot + tv.num + 1)
                                 ELSE WrapI64(tv.num - 1) IN
         Some(IF st < 0 THEN 0 ELSE st)

\* get_start_index taking num.abs() first, which panics at i64::MIN
GetStartIndex_AbsFirst(tv, tot) ==
    IF tv.tag = "PlusZero" THEN (IF tot > 0 THEN Some(0) ELSE None)
    ELSE IF tv.num = 0 \/ tot = 0 \/ tv.num > tot THEN None
    ELSE IF tv.num = I64_MIN THEN Panic
    ELSE LET st == IF tv.num < 0 THEN WrapI64(tot - (-tv.num))
                                 ELSE WrapI64(tv.num - 1) IN
         Some(IF st < 0 THEN 0 ELSE st)

GetStartIndex(tv, tot) ==
    IF tv.tag = "PlusZero" THEN (IF tot > 0 THEN Some(0) ELSE None)
    ELSE IF tv.num = 0 \/ tot = 0 \/ tv.num > tot THEN None
    ELSE LET st == IF tv.num < 0 THEN WrapI64(tot + tv.num)
                                 ELSE WrapI64(tv.num - 1) IN
         Some(IF st < 0 THEN 0 ELSE st)

----------------------------------------------------------------------------
(* Bytes and UTF-8.  FileBytes holds the line feed and the lead byte and   *)
(* the continuation byte of a two-byte character (0xC3 0xA9), so a file    *)
(* can hold lines of well-formed text, a split character and ill-formed    *)
(* bytes.                                                                  *)

LF == 10
FileBytes == {LF, 195, 169}

IsAscii(b) == b < 128
IsLead2(b) == b >= 194 /\ b <= 223
IsCont(b) == b >= 128 /\ b <= 191

\* U+FFFD REPLACEMENT CHARACTER in UTF-8
Replacement == <<239, 191, 189>>

\* core::str::from_utf8(..).is_ok(), for the one- and two-byte forms
RECURSIVE IsUtf8(_)
IsUtf8(b) ==
    IF b = <<>> THEN TRUE
    ELSE IF IsAscii(b[1]) THEN IsUtf8(Tail(b))
    ELSE IF IsLead2(b[1]) /\ Len(b) >= 2 /\ IsCont(b[2])
         THEN IsUtf8(SubSeq(b, 3, Len(b)))
    ELSE FALSE

\* String::from_utf8_lossy: well-formed characters are kept, every
\* ill-formed byte becomes U+FFFD
\* a decoding that keeps ASCII only
RECURSIVE FromUtf8Lossy_AsciiOnly(_)
FromUtf8Lossy_AsciiOnly(b) ==
    IF b = <<>> THEN <<>>
    ELSE (IF IsAscii(b[1]) THEN <<b[1]>> ELSE Replacement)
         \o FromUtf8Lossy_AsciiOnly(Tail(b))

RECURSIVE FromUtf8Lossy(_)
FromUtf8Lossy(b) ==
    IF b = <<>> THEN <<>>
    ELSE IF IsAscii(b[1]) THEN <<b[1]>> \o FromUtf8Lossy(Tail(b))
    ELSE IF IsLead2(b[1]) /\ Len(b) >= 2 /\ IsCont(b[2])
         THEN <<b[1], b[2]>> \o FromUtf8Lossy(SubSeq(b, 3, Len(b)))
    ELSE Replacement \o FromUtf8Lossy(Tail(b))

\* a line reader that drops the terminator, as BufRead::lines does
ReadLine_Stripped(content, p) ==
    LET ends == {i \in (p + 1)..Len(content) : content[i] = LF}
        last == IF ends = {} THEN Len(content)
                ELSE CHOOSE i \in ends : \A j \in ends : i <= j
        buf == SubSeq(content, p + 1, last)
    IN [ok |-> IsUtf8(buf), n |-> Len(buf),
        buf |-> IF ends = {} THEN buf ELSE SubSeq(content, p + 1, last - 1)]

\* BufRead::read_line at read position p: the bytes up to and including the
\* next line feed, or up to end of file; an error when they are not UTF-8
ReadLine(content, p) ==
    LET ends == {i \in (p + 1)..Len(content) : content[i] = LF}
        last == IF ends = {} THEN Len(content)
                ELSE CHOOSE i \in ends : \A j \in ends : i <= j
        buf == SubSeq(content, p + 1, last)
    IN [ok |-> IsUtf8(buf), n |-> Len(buf), buf |-> buf]

\* io::Error's Display text for invalid UTF-8 in read_line
InvalidUtf8Text ==
    <<"s","t","r","e","a","m"," ","d","i","d"," ","n","o","t"," ","c","o",
      "n","t","a","i","n"," ","v","a","l","i","d"," ","U","T","F","-","8">>

----------------------------------------------------------------------------
(* The values the variables of one specification hold under the others. *)

Pending == [some |-> FALSE, v |-> -1]
NoArg == [some |-> FALSE, v |-> <<>>]
NoArgs == [lines |-> NoArg, bytes |-> NoArg, quiet |-> FALSE, files |-> <<>>]
NoConfig == [files |-> <<>>, lines |-> NoTake, bytes |-> None, quiet |-> FALSE]
NoRet == [kind |-> "NoRet", text |-> <<>>]

ParseIdle == val = <<>> /\ parsed = NotParsed
ResolveIdle == take_val = NoTake /\ total = 0 /\ resolved = Pending
RunIdle ==
    /\ args = NoArgs /\ fs = <<>> /\ config = NoConfig /\ pc = "idle"
    /\ id = 0 /\ pos = 0 /\ lines = 0 /\ bytes = 0
    /\ total_lines = 0 /\ total_bytes = 0 /\ start = Pending /\ line_num = 0
    /\ stdout = <<>> /\ stderr = <<>> /\ ret = NoRet

----------------------------------------------------------------------------
(* SpecParse: parse_num applied to every short string over ArgChars and to *)
(* the strings of the values next to the ends of the i64 range.            *)

ArgChars == {"+", "-", "0", "1", "3", ".", "x"}

ShortStrings == UNION {[1..n -> ArgChars] : n \in 0..MaxArgLen}

BoundaryStrings ==
    UNION {{NatToString(m), <<"+">> \o NatToString(m), <<"-">> \o NatToString(m)} :
           m \in (I64_MAX - 1)..(I64_MAX + 2)}

ArgStrings == ShortStrings \cup BoundaryStrings

InitParse ==
    /\ val \in ArgStrings
    /\ parsed = NotParsed
    /\ ResolveIdle
    /\ RunIdle

ParseStep ==
    /\ parsed = NotParsed
    /\ \E r \in ParseNum(val) : parsed' = r
    /\ UNCHANGED <<val, resolveVars, runVars>>

NextParse == ParseStep

SpecParse == InitParse /\ [][NextParse]_vars

----------------------------------------------------------------------------
(* SpecResolve: get_start_index applied to every TakeValue and every       *)
(* total a counting pass can return (0..I64_MAX).                          *)

TakeValues == {PlusZero} \cup {TakeNum(n) : n \in I64}

InitResolve ==
    /\ take_val \in TakeValues
    /\ total \in 0..I64_MAX
    /\ resolved = Pending
    /\ ParseIdle
    /\ RunIdle

Resolve ==
    /\ resolved = Pending
    /\ resolved' = GetStartIndex(take_val, total)
    /\ UNCHANGED <<take_val, total, parseVars, runVars>>

NextResolve == Resolve

SpecResolve == InitResolve /\ [][NextResolve]_vars

----------------------------------------------------------------------------
(* Spec: get_args followed by run, over a command line and a file system.  *)

\* the path names "f1", "f2", ...
Path(i) == <<102, 48 + i>>
Paths == {Path(i) : i \in 1..MaxFiles}

Range(f) == {f[i] : i \in DOMAIN f}

\* the lists of paths, up to renaming: a path is first named after all the
\* paths before it
FileLists ==
    {fl \in UNION {[1..n -> Paths] : n \in 1..MaxFiles} :
        \A i \in DOMAIN fl : \A j \in 1..MaxFiles :
            fl[i] = Path(j) => \A k \in 1..(j - 1) : \E h \in 1..(i - 1) : fl[h] = Path(k)}

Missing == [exists |-> FALSE, data |-> <<>>]
File(d) == [exists |-> TRUE, data |-> d]

Contents(n) == UNION {[1..m -> FileBytes] : m \in 0..n}

\* the file systems over the paths ps that hold at most n bytes
RECURSIVE FileSystems(_, _)
FileSystems(ps, n) ==
    IF ps = {} THEN {<<>>}
    ELSE LET p == CHOOSE q \in ps : TRUE IN
         UNION {{(p :> f) @@ rest : rest \in FileSystems(ps \ {p}, n - Len(f.data))} :
                f \in {Missing} \cup {File(d) : d \in Contents(n)}}

\* the count arguments: "k", "+k", one "-k", and two that are no number
CountArgs ==
    UNION {{NatToString(k), <<"+">> \o NatToString(k)} : k \in 0..(MaxBytes + 1)}
    \cup {<<"-", "1">>, <<"x">>, <<"+", "x">>}

GivenArg(s) == [some |-> TRUE, v |-> s]

\* -n and -c conflict, so at most one of them is given
ArgsSet ==
    {[lines |-> l, bytes |-> b, quiet |-> q, files |-> fl] :
        l \in {NoArg} \cup {GivenArg(a) : a \in CountArgs},
        b \in {NoArg} \cup {GivenArg(a) : a \in CountArgs},
        q \in BOOLEAN, fl \in FileLists}

Init ==
    /\ args \in {a \in ArgsSet : ~(a.lines.some /\ a.bytes.some)}
    /\ fs \in FileSystems(Range(args.files), MaxBytes)
    /\ config = NoConfig
    /\ pc = "get_args"
    /\ id = 0 /\ pos = 0 /\ lines = 0 /\ bytes = 0
    /\ total_lines = 0 /\ total_bytes = 0 /\ start = Pending /\ line_num = 0
    /\ stdout = <<>> /\ stderr = <<>> /\ ret = NoRet
    /\ ParseIdle
    /\ ResolveIdle

RunOk == [kind |-> "Ok", text |-> <<>>]
RunErr(t) == [kind |-> "Err", text |-> t]
RunPanic == [kind |-> "Panic", text |-> <<>>]

\* clap's default_value("-10") of the lines argument
DefaultLines == <<"-", "1", "0">>

IllegalLineCount ==
    <<"i","l","l","e","g","a","l"," ","l","i","n","e"," ","c","o","u","n","t",
      " ","-","-"," ">>
IllegalByteCount ==
    <<"i","l","l","e","g","a","l"," ","b","y","t","e"," ","c","o","u","n","t",
      " ","-","-"," ">>

\* get_args taking a bytes argument that does not parse as absent
\* (`.ok()` for `?`), so that run goes on in line mode
GetArgs_BytesErrorIgnored ==
    /\ pc = "get_args"
    /\ \E l \in ParseNum(IF args.lines.some THEN args.lines.v ELSE DefaultLines) :
         IF l.kind = "Panic" THEN
             /\ ret' = RunPanic /\ pc' = "done" /\ config' = config
         ELSE IF l.kind = "Err" THEN
             /\ ret' = RunErr(IllegalLineCount \o l.text)
             /\ pc' = "done" /\ config' = config
         ELSE IF ~args.bytes.some THEN
             /\ config' = [files |-> args.files, lines |-> l.take,
                           bytes |-> None, quiet |-> args.quiet]
             /\ pc' = "loop" /\ ret' = ret
         ELSE \E b \in ParseNum(args.bytes.v) :
             IF b.kind = "Panic" THEN
                 /\ ret' = RunPanic /\ pc' = "done" /\ config' = config
             ELSE IF b.kind = "Err" THEN
                 /\ config' = [files |-> args.files, lines |-> l.take,
                               bytes |-> None, quiet |-> args.quiet]
                 /\ pc' = "loop" /\ ret' = ret
             ELSE
                 /\ config' = [files |-> args.files, lines |-> l.take,
                               bytes |-> Some(b.take), quiet |-> args.quiet]
                 /\ pc' = "loop" /\ ret' = ret
    /\ args' = NoArgs
    /\ UNCHANGED <<fs, id, pos, lines, bytes, total_lines, total_bytes, start,
                   line_num, stdout, stderr, parseVars, resolveVars>>

\* get_args, from the matches on: lines is parsed first, then bytes; the
\* matches are dropped when it returns
GetArgs ==
    /\ pc = "get_args"
    /\ \E l \in ParseNum(IF args.lines.some THEN args.lines.v ELSE DefaultLines) :
         IF l.kind = "Panic" THEN
             /\ ret' = RunPanic /\ pc' = "done" /\ config' = config
         ELSE IF l.kind = "Err" THEN
             /\ ret' = RunErr(IllegalLineCount \o l.text)
             /\ pc' = "done" /\ config' = config
         ELSE IF ~args.bytes.some THEN
             /\ config' = [files |-> args.files, lines |-> l.take,
                           bytes |-> None, quiet |-> args.quiet]
             /\ pc' = "loop" /\ ret' = ret
         ELSE \E b \in ParseNum(args.bytes.v) :
             IF b.kind = "Panic" THEN
                 /\ ret' = RunPanic /\ pc' = "done" /\ config' = config
             ELSE IF b.kind = "Err" THEN
                 /\ ret' = RunErr(IllegalByteCount \o b.text)
                 /\ pc' = "done" /\ config' = config
             ELSE
                 /\ config' = [files |-> args.files, lines |-> l.take,
                               bytes |-> Some(b.take), quiet |-> args.quiet]
                 /\ pc' = "loop" /\ ret' = ret
    /\ args' = NoArgs
    /\ UNCHANGED <<fs, id, pos, lines, bytes, total_lines, total_bytes, start,
                   line_num, stdout, stderr, parseVars, resolveVars>>

\* the path run's loop is at, and the file it names
filename == config.files[id + 1]
content == fs[filename].data

Chunk(i, k, d) == [id |-> i, kind |-> k, data |-> d]

\* io::Error's Display text for a path that does not exist
NotFoundText ==
    <<78,111,32,115,117,99,104,32,102,105,108,101,32,111,114,32,100,105,114,
      101,99,116,111,114,121,32,40,111,115,32,101,114,114,111,114,32,50,41>>

\* "==> {} <==" and the line feed println! adds
HeaderLine(name) == <<61, 61, 62, 32>> \o name \o <<32, 60, 61, 61, LF>>

\* run writing the diagnostic of a failed open with println!
RunOpen_DiagToStdout ==
    /\ pc = "loop"
    /\ IF id >= Len(config.files) THEN
           /\ pc' = "done" /\ ret' = RunOk
           /\ UNCHANGED <<id, pos, lines, bytes, stdout>>
       ELSE IF ~fs[filename].exists THEN
           /\ stdout' = Append(stdout,
                  Chunk(id, "diag", filename \o <<58, 32>> \o NotFoundText \o <<LF>>))
           /\ id' = id + 1
           /\ UNCHANGED <<pc, ret, pos, lines, bytes>>
       ELSE
           /\ pc' = "count"
           /\ pos' = 0 /\ lines' = 0 /\ bytes' = 0
           /\ UNCHANGED <<id, ret, stdout>>
    /\ UNCHANGED <<args, fs, config, total_lines, total_bytes, start, line_num,
                   stderr, parseVars, resolveVars>>

\* run with the counters of count_lines_bytes kept from one file to the next
RunOpen_KeepCounters ==
    /\ pc = "loop"
    /\ IF id >= Len(config.files) THEN
           /\ pc' = "done" /\ ret' = RunOk
           /\ UNCHANGED <<id, pos, lines, bytes, stderr>>
       ELSE IF ~fs[filename].exists THEN
           /\ stderr' = Append(stderr,
                  Chunk(id, "diag", filename \o <<58, 32>> \o NotFoundText \o <<LF>>))
           /\ id' = id + 1
           /\ UNCHANGED <<pc, ret, pos, lines, bytes>>
       ELSE
           /\ pc' = "count"
           /\ pos' = 0
           /\ UNCHANGED <<id, ret, stderr, lines, bytes>>
    /\ UNCHANGED <<args, fs, config, total_lines, total_bytes, start, line_num,
                   stdout, parseVars, resolveVars>>

\* run with `File::open(&filename)?`: a path that does not open ends run
RunOpen_AbortOnMissing ==
    /\ pc = "loop"
    /\ IF id >= Len(config.files) THEN
           /\ pc' = "done" /\ ret' = RunOk
           /\ UNCHANGED <<id, pos, lines, bytes, stderr>>
       ELSE IF ~fs[filename].exists THEN
           /\ pc' = "done" /\ ret' = RunErr(<<>>)
           /\ UNCHANGED <<id, stderr, pos, lines, bytes>>
       ELSE
           /\ pc' = "count"
           /\ pos' = 0 /\ lines' = 0 /\ bytes' = 0
           /\ UNCHANGED <<id, ret, stderr>>
    /\ UNCHANGED <<args, fs, config, total_lines, total_bytes, start, line_num,
                   stdout, parseVars, resolveVars>>

\* run, lines 169-172: the loop takes the next path and opens it; a failure
\* is reported on stderr and the loop goes on; past the last path run
\* returns Ok
RunOpen ==
    /\ pc = "loop"
    /\ IF id >= Len(config.files) THEN
           /\ pc' = "done" /\ ret' = RunOk
           /\ UNCHANGED <<id, pos, lines, bytes, stderr>>
       ELSE IF ~fs[filename].exists THEN
           /\ stderr' = Append(stderr,
                  Chunk(id, "diag", filename \o <<58, 32>> \o NotFoundText \o <<LF>>))
           /\ id' = id + 1
           /\ UNCHANGED <<pc, ret, pos, lines, bytes>>
       ELSE
           /\ pc' = "count"
           /\ pos' = 0 /\ lines' = 0 /\ bytes' = 0
           /\ UNCHANGED <<id, ret, stderr>>
    /\ UNCHANGED <<args, fs, config, total_lines, total_bytes, start, line_num,
                   stdout, parseVars, resolveVars>>

\* a read error of the counting pass reported like a failed open, the loop
\* moving on to the next file
CountStep_SkipOnError ==
    /\ pc = "count"
    /\ LET r == ReadLine(content, pos) IN
       IF ~r.ok THEN
           /\ stderr' = Append(stderr,
                  Chunk(id, "diag", filename \o <<58, 32>> \o InvalidUtf8Text \o <<LF>>))
           /\ id' = id + 1 /\ pc' = "loop"
           /\ UNCHANGED <<pos, lines, bytes, total_lines, total_bytes, ret>>
       ELSE IF r.n = 0 THEN
           /\ total_lines' = lines /\ total_bytes' = bytes
           /\ pc' = "header"
           /\ UNCHANGED <<pos, lines, bytes, ret, id, stderr>>
       ELSE
           /\ lines' = lines + 1
           /\ bytes' = bytes + r.n
           /\ pos' = pos + r.n
           /\ UNCHANGED <<pc, ret, total_lines, total_bytes, id, stderr>>
    /\ UNCHANGED <<args, fs, config, start, line_num, stdout,
                   parseVars, resolveVars>>

\* count_lines_bytes, one turn of its loop: a read error ends run, end of
\* file returns the totals to run
CountStep ==
    /\ pc = "count"
    /\ LET r == ReadLine(content, pos) IN
       IF ~r.ok THEN
           /\ ret' = RunErr(InvalidUtf8Text) /\ pc' = "done"
           /\ UNCHANGED <<pos, lines, bytes, total_lines, total_bytes>>
       ELSE IF r.n = 0 THEN
           /\ total_lines' = lines /\ total_bytes' = bytes
           /\ pc' = "header"
           /\ UNCHANGED <<pos, lines, bytes, ret>>
       ELSE
           /\ lines' = lines + 1
           /\ bytes' = bytes + r.n
           /\ pos' = pos + r.n
           /\ UNCHANGED <<pc, ret, total_lines, total_bytes>>
    /\ UNCHANGED <<args, fs, config, id, start, line_num, stdout, stderr,
                   parseVars, resolveVars>>

\* the extractor reading on from the handle the counting pass has read
PrintHeader_SharedReader ==
    /\ pc = "header"
    /\ stdout' = IF ~config.quiet /\ Len(config.files) > 1
                 THEN Append(stdout, Chunk(id, "header",
                          (IF id = 0 THEN <<>> ELSE <<LF>>) \o HeaderLine(filename)))
                 ELSE stdout
    /\ pc' = IF config.bytes.some THEN "print_bytes" ELSE "print_lines"
    /\ UNCHANGED <<args, fs, config, id, pos, lines, bytes, total_lines, total_bytes,
                   start, line_num, stderr, ret, parseVars, resolveVars>>

\* the header written only for a file whose offset resolves to Some
PrintHeader_OnlyIfOutput ==
    /\ pc = "header"
    /\ stdout' = IF /\ ~config.quiet /\ Len(config.files) > 1
                    /\ (IF config.bytes.some
                        THEN GetStartIndex(config.bytes.v, total_bytes)
                        ELSE GetStartIndex(config.lines, total_lines)).some
                 THEN Append(stdout, Chunk(id, "header",
                          (IF id = 0 THEN <<>> ELSE <<LF>>) \o HeaderLine(filename)))
                 ELSE stdout
    /\ pc' = IF config.bytes.some THEN "print_bytes" ELSE "print_lines"
    /\ pos' = 0
    /\ UNCHANGED <<args, fs, config, id, lines, bytes, total_lines, total_bytes,
                   start, line_num, stderr, ret, parseVars, resolveVars>>

\* the line extractor chosen whatever the configuration holds
PrintHeader_LinesOnly ==
    /\ pc = "header"
    /\ stdout' = IF ~config.quiet /\ Len(config.files) > 1
                 THEN Append(stdout, Chunk(id, "header",
                          (IF id = 0 THEN <<>> ELSE <<LF>>) \o HeaderLine(filename)))
                 ELSE stdout
    /\ pc' = "print_lines"
    /\ pos' = 0
    /\ UNCHANGED <<args, fs, config, id, lines, bytes, total_lines, total_bytes,
                   start, line_num, stderr, ret, parseVars, resolveVars>>

\* the header written whenever more than one file is given, quiet or not
PrintHeader_QuietIgnored ==
    /\ pc = "header"
    /\ stdout' = IF Len(config.files) > 1
                 THEN Append(stdout, Chunk(id, "header",
                          (IF id = 0 THEN <<>> ELSE <<LF>>) \o HeaderLine(filename)))
                 ELSE stdout
    /\ pc' = IF config.bytes.some THEN "print_bytes" ELSE "print_lines"
    /\ pos' = 0
    /\ UNCHANGED <<args, fs, config, id, lines, bytes, total_lines, total_bytes,
                   start, line_num, stderr, ret, parseVars, resolveVars>>

\* run, lines 174-186: the header, then the choice of the extractor
PrintHeader ==
    /\ pc = "header"
    /\ stdout' = IF ~config.quiet /\ Len(config.files) > 1
                 THEN Append(stdout, Chunk(id, "header",
                          (IF id = 0 THEN <<>> ELSE <<LF>>) \o HeaderLine(filename)))
                 ELSE stdout
    /\ pc' = IF config.bytes.some THEN "print_bytes" ELSE "print_lines"
    /\ pos' = 0
    /\ UNCHANGED <<args, fs, config, id, lines, bytes, total_lines, total_bytes,
                   start, line_num, stderr, ret, parseVars, resolveVars>>

\* print_bytes
PrintBytes ==
    /\ pc = "print_bytes"
    /\ LET st == GetStartIndex(config.bytes.v, total_bytes)
           buf == SubSeq(content, st.v + 1, Len(content))
       IN /\ start' = st
          /\ stdout' = IF st.some /\ buf /= <<>>
                       THEN Append(stdout, Chunk(id, "content", FromUtf8Lossy(buf)))
                       ELSE stdout
    /\ pc' = "next"
    /\ UNCHANGED <<args, fs, config, id, pos, lines, bytes, total_lines,
                   total_bytes, line_num, stderr, ret, parseVars, resolveVars>>

\* print_lines, up to its loop
PrintLines ==
    /\ pc = "print_lines"
    /\ start' = GetStartIndex(config.lines, total_lines)
    /\ pc' = IF start'.some THEN "print_loop" ELSE "next"
    /\ line_num' = 0
    /\ UNCHANGED <<args, fs, config, id, pos, lines, bytes, total_lines,
                   total_bytes, stdout, stderr, ret, parseVars, resolveVars>>

\* print_lines without the break at the end of the file
PrintLinesStep_NoBreak ==
    /\ pc = "print_loop"
    /\ LET r == ReadLine(content, pos) IN
       IF ~r.ok THEN
           /\ ret' = RunErr(InvalidUtf8Text) /\ pc' = "done"
           /\ UNCHANGED <<pos, line_num, stdout>>
       ELSE IF r.n = 0 THEN
           /\ UNCHANGED <<pc, pos, line_num, stdout, ret>>
       ELSE
           /\ stdout' = IF line_num >= start.v
                        THEN Append(stdout, Chunk(id, "content", r.buf))
                        ELSE stdout
           /\ line_num' = line_num + 1
           /\ pos' = pos + r.n
           /\ UNCHANGED <<pc, ret>>
    /\ UNCHANGED <<args, fs, config, id, lines, bytes, total_lines, total_bytes,
                   start, stderr, parseVars, resolveVars>>

\* print_lines putting each line before what is already written
PrintLinesStep_Prepend ==
    /\ pc = "print_loop"
    /\ LET r == ReadLine(content, pos) IN
       IF ~r.ok THEN
           /\ ret' = RunErr(InvalidUtf8Text) /\ pc' = "done"
           /\ UNCHANGED <<pos, line_num, stdout>>
       ELSE IF r.n = 0 THEN
           /\ pc' = "next"
           /\ UNCHANGED <<pos, line_num, stdout, ret>>
       ELSE
           /\ stdout' = IF line_num >= start.v
                        THEN <<Chunk(id, "content", r.buf)>> \o stdout
                        ELSE stdout
           /\ line_num' = line_num + 1
           /\ pos' = pos + r.n
           /\ UNCHANGED <<pc, ret>>
    /\ UNCHANGED <<args, fs, config, id, lines, bytes, total_lines, total_bytes,
                   start, stderr, parseVars, resolveVars>>

\* print_lines, one turn of its loop
PrintLinesStep ==
    /\ pc = "print_loop"
    /\ LET r == ReadLine(content, pos) IN
       IF ~r.ok THEN
           /\ ret' = RunErr(InvalidUtf8Text) /\ pc' = "done"
           /\ UNCHANGED <<pos, line_num, stdout>>
       ELSE IF r.n = 0 THEN
           /\ pc' = "next"
           /\ UNCHANGED <<pos, line_num, stdout, ret>>
       ELSE
           /\ stdout' = IF line_num >= start.v
                        THEN Append(stdout, Chunk(id, "content", r.buf))
                        ELSE stdout
           /\ line_num' = line_num + 1
           /\ pos' = pos + r.n
           /\ UNCHANGED <<pc, ret>>
    /\ UNCHANGED <<args, fs, config, id, lines, bytes, total_lines, total_bytes,
                   start, stderr, parseVars, resolveVars>>

\* run, line 169: the extractor returned Ok and the loop moves on
RunNext ==
    /\ pc = "next"
    /\ id' = id + 1
    /\ pc' = "loop"
    /\ UNCHANGED <<args, fs, config, pos, lines, bytes, total_lines, total_bytes,
                   start, line_num, stdout, stderr, ret, parseVars, resolveVars>>

Next ==
    \/ GetArgs
    \/ RunOpen
    \/ CountStep
    \/ PrintHeader
    \/ PrintBytes
    \/ PrintLines
    \/ PrintLinesStep
    \/ RunNext

Spec == Init /\ [][Next]_vars

\* get_args and run are one sequential thread: a step that can be taken is
\* taken
SpecFair == Spec /\ WF_vars(Next)

----------------------------------------------------------------------------
(* What the claims speak of. *)

\* the lines of a file, each with its terminator if it has one
RECURSIVE LinesOf(_)
LinesOf(c) ==
    IF c = <<>> THEN <<>>
    ELSE LET e == IF \E i \in 1..Len(c) : c[i] = LF
                  THEN CHOOSE i \in 1..Len(c) :
                           c[i] = LF /\ \A j \in 1..(i - 1) : c[j] /= LF
                  ELSE Len(c)
         IN <<SubSeq(c, 1, e)>> \o LinesOf(SubSeq(c, e + 1, Len(c)))

RECURSIVE Flatten(_)
Flatten(ss) == IF ss = <<>> THEN <<>> ELSE Head(ss) \o Flatten(Tail(ss))

\* the bytes an extractor has written for the path at index i
RECURSIVE ContentOf(_, _)
ContentOf(out, i) ==
    IF out = <<>> THEN <<>>
    ELSE (IF Head(out).id = i /\ Head(out).kind = "content"
          THEN Head(out).data ELSE <<>>) \o ContentOf(Tail(out), i)

Emitted == ContentOf(stdout, id)

\* the extractor of the current file has returned Ok
Extracted == pc = "next"
ByteMode == config.bytes.some
\* the count spec and the totals of the mode in force
ModeTake == IF ByteMode THEN config.bytes.v ELSE config.lines
ModeTotal == IF ByteMode THEN total_bytes ELSE total_lines
FileLines == LinesOf(content)
FileTotal == IF ByteMode THEN Len(content) ELSE Len(FileLines)

\* a string of an optional sign and at least one decimal digit, its value,
\* and whether the value fits i64
Unsigned(s) == IF StartsWith(s, "+") \/ StartsWith(s, "-") THEN Tail(s) ELSE s
IsInteger(s) ==
    /\ Len(Unsigned(s)) > 0
    /\ \A i \in 1..Len(Unsigned(s)) : Unsigned(s)[i] \in DigitChars
RECURSIVE DecValue(_)
DecValue(d) ==
    IF d = <<>> THEN 0
    ELSE 10 * DecValue(SubSeq(d, 1, Len(d) - 1)) + ToDigit(d[Len(d)])
IntValue(s) == IF StartsWith(s, "-") THEN -DecValue(Unsigned(s)) ELSE DecValue(Unsigned(s))
IsI64(s) == IsInteger(s) /\ IntValue(s) \in I64
Parsed == parsed /= NotParsed
Resolved == resolved /= Pending

----------------------------------------------------------------------------
(* The claims. *)

\* C1: in line mode with Signed(-k), 0 < k <= L, the offset is L - k and the
\* output is exactly the last k lines of the file, in order, terminators kept.
C1_LastLines ==
    (/\ Extracted /\ ~ByteMode
     /\ config.lines.tag = "TakeNum" /\ config.lines.num < 0
     /\ -config.lines.num <= Len(FileLines))
    => LET L == Len(FileLines)
           k == -config.lines.num
       IN /\ start = Some(L - k)
          /\ Emitted = Flatten(SubSeq(FileLines, L - k + 1, L))

C1_Witness ==
    /\ Extracted /\ ~ByteMode
    /\ config.lines = TakeNum(-1) /\ Len(FileLines) = 2
    /\ Emitted = FileLines[2] /\ Emitted /= content

\* C2 as stated: with Signed(-k), k > L or k == 0, in either mode, the
\* extraction writes nothing.
C2_NoOutputPastTotal ==
    (/\ Extracted
     /\ ModeTake.tag = "TakeNum" /\ ModeTake.num <= 0
     /\ (-ModeTake.num > FileTotal \/ ModeTake.num = 0))
    => Emitted = <<>>

\* C2 as amended: with Signed(-k), in either mode, k == 0 or L == 0 gives no
\* offset and no output; k > L > 0 gives the offset 0 and the whole file.
C2_ClampedToWholeFile ==
    (/\ Extracted
     /\ ModeTake.tag = "TakeNum" /\ ModeTake.num <= 0)
    => LET k == -ModeTake.num IN
       /\ (k = 0 \/ FileTotal = 0) => start = None /\ Emitted = <<>>
       /\ (k > FileTotal /\ FileTotal > 0) => start = Some(0) /\ Emitted = content

C2_Witness ==
    /\ Extracted /\ ByteMode
    /\ ModeTake = TakeNum(-(MaxBytes + 1)) /\ Len(content) = MaxBytes
    /\ Emitted = content

\* C3: for Signed(n), n < 0, and total > 0, get_start_index returns the
\* offset max(0, total + n).
C3_NegativeOffset ==
    (Resolved /\ take_val.tag = "TakeNum" /\ take_val.num < 0 /\ total > 0)
    => resolved = Some(IF total + take_val.num < 0 THEN 0 ELSE total + take_val.num)

C3_Witness ==
    /\ Resolved /\ take_val = TakeNum(I64_MIN) /\ total = 3
    /\ resolved = Some(0)

\* C4: for Signed(n), get_start_index returns None when n == 0, or the total
\* is 0, or n > total, and the extractor of the mode then writes nothing.
C4_EmitNothing ==
    (/\ Extracted /\ ModeTake.tag = "TakeNum"
     /\ (ModeTake.num = 0 \/ ModeTotal = 0 \/ ModeTake.num > ModeTotal))
    => /\ start = None
       /\ Emitted = <<>>

C4_Witness ==
    /\ Extracted /\ ModeTake = TakeNum(0) /\ ModeTotal > 0
    /\ start = None /\ Emitted = <<>>

\* C5: in line mode with Signed(n), 1 <= n <= L, the offset is n - 1 and the
\* output is the lines n..L of the file; with n == 1 it is the whole file.
C5_FromLine ==
    (/\ Extracted /\ ~ByteMode
     /\ config.lines.tag = "TakeNum" /\ config.lines.num >= 1
     /\ config.lines.num <= Len(FileLines))
    => LET L == Len(FileLines)
           n == config.lines.num
       IN /\ start = Some(n - 1)
          /\ Emitted = Flatten(SubSeq(FileLines, n, L))
          /\ n = 1 => Emitted = content

C5_Witness ==
    /\ Extracted /\ ~ByteMode
    /\ config.lines = TakeNum(2) /\ Len(FileLines) = 2
    /\ Emitted = FileLines[2] /\ Emitted /= content

\* C6: with FromStart, in either mode, a non-empty file gives the offset 0
\* and the whole file as output, an empty file no offset and no output.
C6_FromStart ==
    (Extracted /\ ModeTake.tag = "PlusZero")
    => /\ content /= <<>> => start = Some(0) /\ Emitted = content
       /\ content = <<>> => start = None /\ Emitted = <<>>

C6_Witness ==
    /\ Extracted /\ ByteMode /\ ModeTake = PlusZero
    /\ Len(content) = MaxBytes /\ ~(\A i \in 1..Len(content) : IsAscii(content[i]))
    /\ Emitted = content

\* C7: an offset get_start_index returns is less than the total it was
\* resolved against.
C7_OffsetBelowTotal == resolved.some => resolved.v < total

C7_Witness ==
    /\ Resolved /\ take_val = TakeNum(total) /\ total = I64_MAX
    /\ resolved = Some(total - 1)

\* C8: for a decimal integer string in range, "+v" parses to FromStart when
\* v is 0 and to Signed(v), v > 0, otherwise; "-v" parses to Signed(-v);
\* "v" parses to Signed(-v), as "-v" does; "+0" and "0" parse differently.
C8_SignConvention ==
    (Parsed /\ IsI64(val))
    => LET v == IntValue(val) IN
       /\ StartsWith(val, "+") =>
              IF v = 0 THEN parsed = Ok(PlusZero)
              ELSE parsed = Ok(TakeNum(v)) /\ v > 0
       /\ StartsWith(val, "-") => parsed = Ok(TakeNum(v)) /\ v <= 0
       /\ (~StartsWith(val, "+") /\ ~StartsWith(val, "-")) =>
              /\ parsed = Ok(TakeNum(-v))
              /\ ParseNum(<<"-">> \o val) = {parsed}
              /\ parsed /= Ok(PlusZero)

C8_Witness ==
    /\ Parsed /\ val = <<"3">> /\ parsed = Ok(TakeNum(-3))

\* C9: for a string that is no decimal integer, parse_num fails and the
\* error carries the string.
C9_ErrorCarriesInput ==
    (Parsed /\ ~IsInteger(val)) => parsed = Err(val)

\* C10: every string of a value in the i64 range is accepted without panic
\* or wrap-around: the result is the value, negated for an unsigned string;
\* I64_MAX gives Signed(I64_MIN + 1), "+" I64_MAX gives Signed(I64_MAX),
\* I64_MIN gives Signed(I64_MIN).
C10_FullRange ==
    Parsed =>
       /\ parsed /= Panic
       /\ IsI64(val) =>
              /\ parsed.kind = "Ok"
              /\ parsed.take.tag = "TakeNum" =>
                     parsed.take.num =
                         IF StartsWith(val, "+") \/ StartsWith(val, "-")
                         THEN IntValue(val) ELSE -IntValue(val)
       /\ val = I64ToString(I64_MAX) => parsed = Ok(TakeNum(I64_MIN + 1))
       /\ val = <<"+">> \o I64ToString(I64_MAX) => parsed = Ok(TakeNum(I64_MAX))
       /\ val = I64ToString(I64_MIN) => parsed = Ok(TakeNum(I64_MIN))

C10_Witness ==
    /\ Parsed /\ val = I64ToString(I64_MIN) /\ parsed = Ok(TakeNum(I64_MIN))

\* the line total the counting pass is to return: the line feeds, and one
\* more for a last line without one
ExpectedLines(c) ==
    Cardinality({i \in 1..Len(c) : c[i] = LF})
    + (IF c /= <<>> /\ c[Len(c)] /= LF THEN 1 ELSE 0)

\* count_lines_bytes has returned its totals to run
Counted == pc = "header"
\* run has ended on a read error
ReadFailed == pc = "done" /\ ret = RunErr(InvalidUtf8Text)

\* C11: for every file that opens, count_lines_bytes returns totals, the
\* byte total being the size of the file and the line total the number of
\* terminated lines plus one for a last line without terminator; (0, 0) for
\* an empty file.
C11_ExactTotals ==
    /\ ~ReadFailed
    /\ Counted => /\ total_bytes = Len(content)
                  /\ total_lines = ExpectedLines(content)
                  /\ content = <<>> => total_lines = 0 /\ total_bytes = 0

\* the part of C11 that the code meets: the totals it returns are exact
C11_TotalsWhenReturned ==
    Counted => /\ total_bytes = Len(content)
               /\ total_lines = ExpectedLines(content)

\* what the extractor of the mode writes for a file taken alone
AloneLines(tv, data) ==
    LET ls == LinesOf(data)
        st == GetStartIndex(tv, Len(ls))
    IN IF st.some THEN Flatten(SubSeq(ls, st.v + 1, Len(ls))) ELSE <<>>
AloneBytes(tv, data) ==
    LET st == GetStartIndex(tv, Len(data))
    IN IF st.some THEN FromUtf8Lossy(SubSeq(data, st.v + 1, Len(data))) ELSE <<>>
AloneOutput(cfg, data) ==
    IF cfg.bytes.some THEN AloneBytes(cfg.bytes.v, data)
    ELSE AloneLines(cfg.lines, data)

\* get_args has built the Config, so run is under way or over
Running == config /= NoConfig
Indices == 0..(Len(config.files) - 1)
FileAt(i) == fs[config.files[i + 1]]
FailsToOpen(i) == ~FileAt(i).exists
\* the chunks of a stream written for the path at index i
ChunksOf(out, i) == {n \in 1..Len(out) : out[n].id = i}
AllReadable == \A i \in Indices : FailsToOpen(i) \/ IsUtf8(FileAt(i).data)

\* C12: a path that fails to open gets one diagnostic on stderr and ends
\* nothing: every other path attempted is extracted as it is alone, run never
\* ends at a path that fails to open, and once all paths are attempted run
\* returns Ok.
C12_OpenFailureIsolated ==
    Running =>
       /\ \A i \in Indices :
             /\ Cardinality(ChunksOf(stderr, i)) =
                    IF FailsToOpen(i) /\ i < id THEN 1 ELSE 0
             /\ (i < id /\ ~FailsToOpen(i)) =>
                    ContentOf(stdout, i) = AloneOutput(config, FileAt(i).data)
       /\ (pc = "done" /\ id < Len(config.files)) =>
              ~FailsToOpen(id) /\ ret.kind = "Err"
       /\ (pc = "done" /\ AllReadable) =>
              id = Len(config.files) /\ ret = RunOk

C12_Witness ==
    /\ Running /\ pc = "done" /\ ret = RunOk
    /\ Len(config.files) = 2 /\ FailsToOpen(0) /\ ~FailsToOpen(1)
    /\ Len(stderr) = 1
    /\ ContentOf(stdout, 1) = FileAt(1).data /\ FileAt(1).data /= <<>>

\* the lines argument as clap hands it over, and whether a count argument
\* of the command line is no i64
LinesArg == IF args.lines.some THEN args.lines.v ELSE DefaultLines
CountFails == ~IsI64(LinesArg) \/ (args.bytes.some /\ ~IsI64(args.bytes.v))
\* no file has been opened, read or written about
NothingTouched ==
    /\ stdout = <<>> /\ stderr = <<>>
    /\ id = 0 /\ pos = 0 /\ lines = 0 /\ bytes = 0 /\ start = Pending

\* C13: when a count argument does not parse, nothing is touched before
\* get_args, get_args returns an error without building a Config, nothing is
\* touched by it, and no step follows the error.
C13_ParseFailureIsFatal ==
    [][/\ (pc = "get_args" /\ CountFails) =>
              /\ NothingTouched
              /\ pc' = "done" /\ ret'.kind = "Err" /\ config' = NoConfig
              /\ NothingTouched'
       /\ (pc = "done" /\ ~Running) => FALSE]_vars

C13_Witness ==
    /\ pc = "done" /\ ~Running /\ ret.kind = "Err"
    /\ SubSeq(ret.text, 1, Len(IllegalByteCount)) = IllegalByteCount
    /\ NothingTouched
    /\ \E p \in DOMAIN fs : fs[p].exists /\ fs[p].data /= <<>>

\* C14: with more than one file and quiet off, whichever files open, the
\* first header written has no line feed before it and every later header
\* has exactly one.
C14_FirstHeaderNoBlankLine ==
    \A n \in 1..Len(stdout) :
        stdout[n].kind = "header" =>
            stdout[n].data =
                (IF \A m \in 1..(n - 1) : stdout[m].kind /= "header"
                 THEN <<>> ELSE <<LF>>)
                \o HeaderLine(config.files[stdout[n].id + 1])

\* all the bytes of a stream, in order
RECURSIVE BytesOf(_)
BytesOf(out) == IF out = <<>> THEN <<>> ELSE Head(out).data \o BytesOf(Tail(out))

\* the content of the files at the indices i..(n - 1), each as its extractor
\* writes it alone, a file that does not open giving nothing
RECURSIVE AloneFrom(_, _)
AloneFrom(i, n) ==
    IF i >= n THEN <<>>
    ELSE (IF FailsToOpen(i) THEN <<>> ELSE AloneOutput(config, FileAt(i).data))
         \o AloneFrom(i + 1, n)

\* C15: with one file, or with quiet set, no header is written, and the
\* bytes on stdout are the extracted content of the files and nothing else.
C15_NoHeader ==
    (Running /\ (Len(config.files) = 1 \/ config.quiet)) =>
       /\ \A n \in 1..Len(stdout) : stdout[n].kind = "content"
       /\ pc \in {"loop", "done"} => BytesOf(stdout) = AloneFrom(0, id)

C15_Witness ==
    /\ Running /\ config.quiet /\ Len(config.files) = 2
    /\ pc = "done" /\ ret = RunOk
    /\ ContentOf(stdout, 0) /= <<>> /\ ContentOf(stdout, 1) /= <<>>
    /\ BytesOf(stdout) = ContentOf(stdout, 0) \o ContentOf(stdout, 1)

\* the contiguous pieces of a byte sequence
Infixes(d) == {SubSeq(d, a, b) : a \in 1..(Len(d) + 1), b \in 0..Len(d)}
Suffixes(d) == {SubSeq(d, a, Len(d)) : a \in 1..(Len(d) + 1)}

\* C16: the chunks on stdout are in argument order, the chunks of one path
\* never after a chunk of a later path, a header before the content it
\* heads; and the content written for a file is a piece of the file in file
\* order (in byte mode: a tail of the file as print_bytes renders it).
C16_ArgumentOrder ==
    Running =>
       /\ \A m, n \in 1..Len(stdout) :
             m < n => /\ stdout[m].id <= stdout[n].id
                      /\ stdout[m].id = stdout[n].id => stdout[n].kind = "content"
       /\ \A i \in Indices :
             ContentOf(stdout, i) /= <<>> =>
                 IF ByteMode
                 THEN \E t \in Suffixes(FileAt(i).data) :
                          ContentOf(stdout, i) = FromUtf8Lossy(t)
                 ELSE ContentOf(stdout, i) \in Infixes(FileAt(i).data)

C16_Witness ==
    /\ Running /\ ~config.quiet /\ ~ByteMode /\ pc = "done" /\ ret = RunOk
    /\ Len(stdout) >= 4
    /\ stdout[1].kind = "header" /\ stdout[1].id = 0
    /\ stdout[2].kind = "content" /\ stdout[3].kind = "content"
    /\ stdout[2].id = 0 /\ stdout[3].id = 0
    /\ stdout[2].data /= stdout[3].data
    /\ stdout[Len(stdout)].id = 1

\* C17: in byte mode with an offset, the content written is the bytes of the
\* file from the offset to the end, unchanged, also when the offset falls
\* inside a character.
C17_BytesVerbatim ==
    (Extracted /\ ByteMode /\ start.some) =>
        Emitted = SubSeq(content, start.v + 1, Len(content))

\* C18: for a file that is not empty, the last L lines in line mode, L the
\* file's line total, and the last B bytes in byte mode, B its byte total,
\* both resolve to offset 0 and both write the whole file.
C18_WholeFileAtTotal ==
    (Extracted /\ content /= <<>> /\ ModeTake = TakeNum(-ModeTotal)) =>
        /\ start = Some(0)
        /\ Emitted = content
        /\ AloneLines(TakeNum(-Len(FileLines)), content)
               = AloneBytes(TakeNum(-Len(content)), content)

C18_Witness ==
    /\ Extracted /\ ByteMode
    /\ config.bytes.v = TakeNum(-3) /\ total_bytes = 3 /\ total_lines = 2
    /\ \E n \in 1..3 : ~IsAscii(content[n])
    /\ Emitted = content

\* C19: the same file extracted twice in one run, with nothing changed in
\* between, is written identically both times, and no step changes the
\* files or the configuration.
C19_Idempotent ==
    [][/\ fs' = fs
       /\ Running => config' = config
       /\ (pc = "next" /\ pc' = "loop") =>
              \A i \in 0..(id - 1) :
                  (config.files[i + 1] = filename) =>
                      ContentOf(stdout, i) = ContentOf(stdout, id)]_vars

C19_Witness ==
    /\ Running /\ pc = "done" /\ ret = RunOk
    /\ config.files = <<Path(1), Path(1)>>
    /\ config.lines = TakeNum(-1) /\ ~ByteMode
    /\ Len(LinesOf(FileAt(0).data)) = 2
    /\ ContentOf(stdout, 0) /= <<>>
    /\ ContentOf(stdout, 0) /= FileAt(0).data
    /\ ContentOf(stdout, 0) = ContentOf(stdout, 1)

\* C20: for each opened file one extractor runs, chosen by the mode: with a
\* byte specification print_bytes, resolved against the byte total, and
\* otherwise print_lines, resolved against the line total.
C20_OneExtractor ==
    Running =>
       /\ pc = "print_bytes" => ByteMode
       /\ pc \in {"print_lines", "print_loop"} => ~ByteMode
       /\ Extracted =>
             /\ start = IF ByteMode
                        THEN GetStartIndex(config.bytes.v, total_bytes)
                        ELSE GetStartIndex(config.lines, total_lines)
             /\ Emitted = IF ByteMode
                          THEN AloneBytes(config.bytes.v, content)
                          ELSE AloneLines(config.lines, content)

C20_Witness ==
    /\ Extracted /\ ByteMode
    /\ total_bytes = 3 /\ total_lines = 2
    /\ config.bytes.v = TakeNum(-2) /\ config.lines = TakeNum(-10)
    /\ start = Some(1)
    /\ Len(Emitted) = 2

\* C21: on a file of L lines, for 1 <= n <= L, "+n" and "last L - n + 1
\* lines" resolve to the same offset, n - 1, and write the same content.
C21_AbsoluteEqualsTrailing ==
    (Extracted /\ ~ByteMode /\ config.lines.tag = "TakeNum") =>
        LET L == total_lines
            n == config.lines.num
            other == IF n > 0 THEN TakeNum(-(L - n + 1)) ELSE TakeNum(L + n + 1)
        IN  ((1 <= n /\ n <= L) \/ (1 <= -n /\ -n <= L)) =>
                /\ start = GetStartIndex(other, L)
                /\ start = Some(IF n > 0 THEN n - 1 ELSE L + n)
                /\ Emitted = AloneLines(other, content)

C21_Witness ==
    /\ Extracted /\ ~ByteMode
    /\ config.lines = TakeNum(2) /\ total_lines = 3
    /\ start = Some(1)
    /\ GetStartIndex(TakeNum(-2), 3) = Some(1)
    /\ Emitted = SubSeq(content, 2, 3)

HasPrefix(s, p) == Len(s) >= Len(p) /\ SubSeq(s, 1, Len(p)) = p

NoOutputForFailed ==
    /\ \A n \in 1..Len(stdout) :
          /\ stdout[n].kind \in {"header", "content"}
          /\ Running => ~FailsToOpen(stdout[n].id)
    /\ \A n \in 1..Len(stderr) :
          /\ stderr[n].kind = "diag"
          /\ Running => /\ FailsToOpen(stderr[n].id)
                        /\ HasPrefix(stderr[n].data, config.files[stderr[n].id + 1])

\* C23: the diagnostic of a failed open goes to stderr alone and starts with
\* the path; the step that fails to open a path leaves stdout as it was, and
\* stdout never holds a chunk for a path that failed to open.
C23_DiagnosticsOnStderr ==
    [][/\ NoOutputForFailed /\ NoOutputForFailed'
       /\ (Running /\ pc = "loop" /\ id < Len(config.files) /\ FailsToOpen(id)) =>
              /\ stdout' = stdout
              /\ Len(stderr') = Len(stderr) + 1
              /\ SubSeq(stderr', 1, Len(stderr)) = stderr
              /\ stderr'[Len(stderr')].id = id
       /\ stderr' /= stderr => stdout' = stdout]_vars

C23_Witness ==
    /\ Running /\ pc = "done" /\ ret = RunOk /\ ~config.quiet
    /\ Len(config.files) = 2 /\ ~FailsToOpen(0) /\ FailsToOpen(1)
    /\ Len(stderr) = 1 /\ stderr[1].id = 1
    /\ Len(stdout) = 2
    /\ stdout[1].kind = "header" /\ stdout[2].kind = "content"
    /\ stdout[1].id = 0 /\ stdout[2].id = 0

\* C24: the totals of a file are set once, when its counting pass returns,
\* and stay as they are until the file is done; when print_lines leaves its
\* loop at the end of the file, its line counter is total_lines and the
\* bytes it has read are total_bytes.
C24_PassesAgree ==
    [][/\ pc' = "header" =>
              /\ pc = "count"
              /\ total_lines' = lines /\ total_bytes' = bytes
       /\ pc \in {"header", "print_bytes", "print_lines", "print_loop", "next"} =>
              /\ total_lines' = total_lines /\ total_bytes' = total_bytes
              /\ pc' /= "count"
       /\ (pc = "print_loop" /\ pc' = "next") =>
              /\ line_num = total_lines
              /\ pos = total_bytes]_vars

C24_Witness ==
    /\ Extracted /\ ~ByteMode /\ start.some
    /\ line_num = 2 /\ total_lines = 2
    /\ pos = 3 /\ total_bytes = 3
    /\ id = 1

\* C25: run ends; when it ends with Ok every path was attempted, once and in
\* argument order; the counting loop and the loop of print_lines each end,
\* and they end on the read at the end of the file or on a read error.
C25_Terminates ==
    /\ <>(pc = "done")
    /\ [](pc = "done" /\ ret = RunOk => id = Len(config.files))
    /\ (pc = "count") ~> (pc /= "count")
    /\ (pc = "print_loop") ~> (pc /= "print_loop")
    /\ [][/\ id' = id \/ (id' = id + 1 /\ pc' = "loop")
          /\ pc' = "loop" => pc = "get_args" \/ id' = id + 1
          /\ (pc = "loop" /\ id < Len(config.files)) =>
                 \/ id' = id /\ pc' = "count"
                 \/ id' = id + 1 /\ pc' = "loop"
          /\ (pc = "count" /\ pc' = "header") => pos = Len(content)
          /\ (pc = "print_loop" /\ pc' = "next") => pos = Len(content)]_vars

C25_Witness ==
    /\ Running /\ pc = "done" /\ ret = RunOk
    /\ id = 2 /\ Len(config.files) = 2
    /\ ~ByteMode /\ ~FailsToOpen(0) /\ ~FailsToOpen(1)
    /\ Len(stdout) >= 3

\* all the bytes written to a stream for the path at index i
RECURSIVE BytesOfFile(_, _)
BytesOfFile(out, i) ==
    IF out = <<>> THEN <<>>
    ELSE (IF Head(out).id = i THEN Head(out).data ELSE <<>>)
         \o BytesOfFile(Tail(out), i)

\* what run writes to stdout for the path at index i, from the index, the
\* path and the file there alone, under the given configuration
OwnOutput(i) ==
    IF FailsToOpen(i) \/ ~IsUtf8(FileAt(i).data) THEN <<>>
    ELSE (IF ~config.quiet /\ Len(config.files) > 1
          THEN (IF i = 0 THEN <<>> ELSE <<LF>>) \o HeaderLine(config.files[i + 1])
          ELSE <<>>)
         \o AloneOutput(config, FileAt(i).data)

\* C26: when run has ended, the bytes on stdout for the path at index i are
\* those the index and the file's own content determine, whatever the other
\* paths hold.
C26_IndependentOfOthers ==
    (Running /\ pc = "done") =>
        \A i \in Indices : BytesOfFile(stdout, i) = OwnOutput(i)

HeadersOf(i) == {n \in 1..Len(stdout) : stdout[n].id = i /\ stdout[n].kind = "header"}

\* the path at index i was opened and its counting pass has returned totals
Headed(i) ==
    /\ ~FailsToOpen(i)
    /\ \/ i < id
       \/ i = id /\ pc \in {"print_bytes", "print_lines", "print_loop", "next"}

\* C27: with more than one file and quiet off, a path has one header if it
\* was opened and counted and none otherwise, the header comes before the
\* file's content, and it is written also when the offset resolves to None.
C27_HeaderPerCountedFile ==
    (Running /\ ~config.quiet /\ Len(config.files) > 1) =>
       /\ \A i \in Indices :
             Cardinality(HeadersOf(i)) = IF Headed(i) THEN 1 ELSE 0
       /\ \A n \in 1..Len(stdout) :
             stdout[n].kind = "content" =>
                 \E m \in 1..(n - 1) : m \in HeadersOf(stdout[n].id)
       /\ (Extracted /\ ~start.some) =>
             /\ HeadersOf(id) = {Len(stdout)}
             /\ Emitted = <<>>

C27_Witness ==
    /\ Running /\ ~config.quiet /\ pc = "done" /\ ret = RunOk
    /\ Len(config.files) = 2
    /\ ~FailsToOpen(0) /\ FileAt(0).data = <<>>
    /\ ~FailsToOpen(1) /\ FileAt(1).data /= <<>>
    /\ Len(stdout) = 2
    /\ stdout[1].kind = "header" /\ stdout[2].kind = "header"

\* C28: for every num of the i64 range and every total in 0..i64::MAX, the
\* sum total + num (num < 0) and the difference num - 1 (num > 0) that
\* get_start_index computes stay within i64, and the offset returned is the
\* exact value clamped at 0, so it is never negative.
C28_NoOverflow ==
    resolved /= Pending =>
       /\ resolved \in {None} \cup {Some(k) : k \in 0..I64_MAX}
       /\ (/\ take_val.tag = "TakeNum"
           /\ ~(take_val.num = 0 \/ total = 0 \/ take_val.num > total)) =>
              LET exact == IF take_val.num < 0 THEN total + take_val.num
                                               ELSE take_val.num - 1
              IN  /\ exact \in I64
                  /\ resolved = Some(IF exact < 0 THEN 0 ELSE exact)

C28_Witness ==
    /\ take_val = TakeNum(I64_MIN) /\ total = I64_MAX
    /\ resolved = Some(0)

====
